---- MODULE Spec2Model ----
(***************************************************************************)
(* RoseLauncher (src-tauri/src/main.rs): the record store of library       *)
(* entries kept in library.json, the entry builder, and the download       *)
(* engine with its progress / complete / error notifications.              *)
(*                                                                         *)
(* A Rust String is a sequence of one-character strings. Option<T> is      *)
(* None or <<"Some", v>> for every payload; a Result is a record with a    *)
(* field ok.                                                               *)
(***************************************************************************)
EXTENDS Integers, Sequences, FiniteSets, TLC

\* ------------------------------------------------------------------ bounds

\* Largest value of the wall clock read by Utc::now().
MaxClock == 2
\* Number of Uuid::new_v4() draws (add_game draws two, queue_download one).
MaxUuid == 4
\* Number of download jobs queued in one run.
MaxJobs == 1
\* Number of download jobs running side by side.
MaxPeers == 2

\* ------------------------------------------------------- program constants

DOWNLOAD_BUFFER == 131072

\* ----------------------------------------------------------------- strings

None == <<"None">>
Some(v) == <<"Some", v>>
IsSome(o) == o[1] = "Some"
Unwrap(o) == o[2]

Min(a, b) == IF a <= b THEN a ELSE b

SeqToSet(s) == {s[i] : i \in 1..Len(s)}

\* char::is_whitespace on the characters the model uses
IsWhitespace(c) == c \in {" ", "\t", "\n"}

RECURSIVE TrimStart(_)
TrimStart(s) ==
    IF s # <<>> /\ IsWhitespace(Head(s)) THEN TrimStart(Tail(s)) ELSE s

RECURSIVE TrimEnd(_)
TrimEnd(s) ==
    IF s # <<>> /\ IsWhitespace(s[Len(s)]) THEN TrimEnd(SubSeq(s, 1, Len(s) - 1)) ELSE s

\* str::trim
Trim(s) == TrimEnd(TrimStart(s))

\* the byte value of a character, which is what String's Ord compares
Byte(c) ==
    CASE c = "\t" -> 9
      [] c = "\n" -> 10
      [] c = " " -> 32
      [] c = "," -> 44
      [] c = "-" -> 45
      [] c = "." -> 46
      [] c = "/" -> 47
      [] c = "A" -> 65
      [] c = "B" -> 66
      [] c = "a" -> 97
      [] c = "b" -> 98
      [] c = "d" -> 100
      [] c = "f" -> 102
      [] c = "h" -> 104
      [] c = "x" -> 120
      [] OTHER -> 122

\* <String as Ord>::lt : lexicographic on bytes
RECURSIVE StrLess(_, _)
StrLess(a, b) ==
    IF b = <<>> THEN FALSE
    ELSE IF a = <<>> THEN TRUE
    ELSE IF Head(a) # Head(b) THEN Byte(Head(a)) < Byte(Head(b))
    ELSE StrLess(Tail(a), Tail(b))

\* str::split(sep): the pieces between the separators, empty pieces kept
RECURSIVE SplitOn(_, _, _)
SplitOn(s, sep, cur) ==
    IF s = <<>> THEN <<cur>>
    ELSE IF Head(s) = sep THEN <<cur>> \o SplitOn(Tail(s), sep, <<>>)
    ELSE SplitOn(Tail(s), sep, Append(cur, Head(s)))

Split(s, sep) == SplitOn(s, sep, <<>>)

\* --------------------------------------------------------- entry builder

\* A non_empty that tests for the empty string without trimming.
non_empty_untrimmed(value) == IF value = <<>> THEN None ELSE Some(value)

\* non_empty: trimmed, and None when nothing is left
non_empty(value) ==
    LET trimmed == Trim(value)
    IN IF trimmed = <<>> THEN None ELSE Some(trimmed)

\* Option::and_then(non_empty)
AndThenNonEmpty(o) == IF IsSome(o) THEN non_empty(Unwrap(o)) ELSE None

\* the inner loop of normalize_tags: the non-empty trimmed pieces of one tag
RECURSIVE TagPieces(_)
TagPieces(pieces) ==
    IF pieces = <<>> THEN <<>>
    ELSE LET trimmed == Trim(Head(pieces))
         IN (IF trimmed # <<>> THEN <<trimmed>> ELSE <<>>) \o TagPieces(Tail(pieces))

\* the outer loop of normalize_tags
RECURSIVE ParseTags(_)
ParseTags(tags) ==
    IF tags = <<>> THEN <<>>
    ELSE TagPieces(Split(Head(tags), ",")) \o ParseTags(Tail(tags))

\* Vec::sort : insertion of x into a sorted sequence, after its equals
RECURSIVE InsertSorted(_, _)
InsertSorted(x, s) ==
    IF s = <<>> THEN <<x>>
    ELSE IF StrLess(x, Head(s)) THEN <<x>> \o s
    ELSE <<Head(s)>> \o InsertSorted(x, Tail(s))

RECURSIVE SortStrings(_)
SortStrings(s) ==
    IF s = <<>> THEN <<>> ELSE InsertSorted(s[Len(s)], SortStrings(SubSeq(s, 1, Len(s) - 1)))

\* Vec::dedup : consecutive repeated elements removed
RECURSIVE Dedup(_)
Dedup(s) ==
    IF Len(s) <= 1 THEN s
    ELSE IF s[1] = s[2] THEN Dedup(Tail(s))
    ELSE <<s[1]>> \o Dedup(Tail(s))

\* A normalize_tags that sorts and does not remove the repeats.
normalize_tags_keeps_repeats(tags) == SortStrings(ParseTags(tags))

\* normalize_tags: parsed, then sort and dedup
normalize_tags(tags) == Dedup(SortStrings(ParseTags(tags)))

\* The entry game_from_payload starts from when there is no existing one.
FreshEntry(uuid, now) ==
    [id |-> uuid, title |-> <<>>, version |-> None, archive_path |-> None,
     install_path |-> None, executable_path |-> None, repacker |-> None,
     tags |-> <<>>, status |-> "not-installed", notes |-> None,
     checksum |-> None, color |-> None, size_bytes |-> None,
     added_at |-> now, updated_at |-> now]

\* the path whose size game_from_payload asks for: archive_path, else install_path
ScanTarget(payload) ==
    LET archive_path == AndThenNonEmpty(payload.archive_path)
        install_path == AndThenNonEmpty(payload.install_path)
    IN IF IsSome(archive_path) THEN archive_path ELSE install_path

\* A size step that forgets the size when there is none to set.
SizeBytes_cleared(entry, payload, scan) ==
    IF IsSome(payload.size_override) THEN payload.size_override
    ELSE IF IsSome(ScanTarget(payload)) THEN scan
    ELSE None

\* The size step of game_from_payload: entry.size_bytes is assigned only when
\* there is an override or a scan that succeeded (scan: Some(size) or None).
SizeBytes(entry, payload, scan) ==
    LET size == IF IsSome(payload.size_override) THEN payload.size_override
                ELSE IF IsSome(ScanTarget(payload)) THEN scan
                ELSE None
    IN IF IsSome(size) THEN size ELSE entry.size_bytes

\* game_from_payload from the entry it starts from: every field but id,
\* added_at and updated_at is set from the payload.
BuildEntry(entry, payload, scan) ==
    LET title == Trim(payload.title)
    IN [entry EXCEPT
          !.title = IF title = <<>> THEN <<"U", "n", "t", "i", "t", "l", "e", "d">> ELSE title,
          !.version = AndThenNonEmpty(payload.version),
          !.archive_path = AndThenNonEmpty(payload.archive_path),
          !.install_path = AndThenNonEmpty(payload.install_path),
          !.executable_path = AndThenNonEmpty(payload.executable_path),
          !.repacker = AndThenNonEmpty(payload.repacker),
          !.tags = normalize_tags(payload.tags),
          !.status = payload.status,
          !.notes = AndThenNonEmpty(payload.notes),
          !.checksum = AndThenNonEmpty(payload.checksum),
          !.color = AndThenNonEmpty(payload.color),
          !.size_bytes = SizeBytes(entry, payload, scan)]

\* A game_from_payload that starts from a fresh entry even when one exists.
game_from_payload_fresh(payload, existing, uuid, now, scan) ==
    BuildEntry(FreshEntry(uuid, now), payload, scan)

\* game_from_payload(payload, existing). uuid and now are the values its
\* Uuid::new_v4() and Utc::now() return; the uuid is drawn only when there is
\* no existing entry. scan is what compute_path_size(..).ok() gives for
\* ScanTarget(payload).
game_from_payload(payload, existing, uuid, now, scan) ==
    BuildEntry(IF IsSome(existing) THEN Unwrap(existing) ELSE FreshEntry(uuid, now),
               payload, scan)

\* ------------------------------------------------------------ the document

\* What serde_json writes for a Vec<GameEntry>: "[", one object per entry, "]".
TokOpen == <<"[">>
TokClose == <<"]">>
TokEntry(e) == <<"{}", e>>
\* a run of whitespace
TokSpace == <<" ">>
IsTokEntry(t) == Len(t) = 2 /\ t[1] = "{}"

\* serde_json::to_string_pretty(games)
to_string_pretty(games) ==
    <<TokOpen>> \o [i \in 1..Len(games) |-> TokEntry(games[i])] \o <<TokClose>>

Ok(v) == [ok |-> TRUE, value |-> v]
Err(e) == [ok |-> FALSE, error |-> e]

\* content without its whitespace
StripSpace(content) == SelectSeq(content, LAMBDA token : token # TokSpace)

\* serde_json::from_str::<Vec<GameEntry>>(content): whitespace between tokens is
\* skipped; an array is read only when it is complete, anything else is a
\* syntax or EOF error
from_str(content) ==
    LET tokens == StripSpace(content)
    IN IF /\ Len(tokens) >= 2
          /\ tokens[1] = TokOpen
          /\ tokens[Len(tokens)] = TokClose
          /\ \A i \in 2..(Len(tokens) - 1) : IsTokEntry(tokens[i])
       THEN Ok([i \in 1..(Len(tokens) - 2) |-> tokens[i + 1][2]])
       ELSE Err("CorruptStore")

\* A read_library that takes a document it cannot parse for an empty library.
read_library_lenient(doc) ==
    IF ~IsSome(doc) THEN Ok(<<>>)
    ELSE IF from_str(Unwrap(doc)).ok THEN from_str(Unwrap(doc))
    ELSE Ok(<<>>)

\* read_library on the document doc: None when library.json does not exist,
\* Some(content) otherwise; content.trim().is_empty() when nothing but
\* whitespace is in it.
read_library(doc) ==
    IF ~IsSome(doc) THEN Ok(<<>>)
    ELSE IF StripSpace(Unwrap(doc)) = <<>> THEN Ok(<<>>)
    ELSE from_str(Unwrap(doc))

\* write(2) of content at offset 0 of a file holding old: what lies past the
\* written bytes stays
WriteAt0(content, old) ==
    content \o SubSeq(old, Len(content) + 1, Len(old))

\* ------------------------------------------------- record store, in memory

Ids(library) == {library[i].id : i \in 1..Len(library)}

\* Iterator::find(|game| game.id == id): the position of the first match, 0 if none
FindFirst(library, id) ==
    IF id \in Ids(library)
    THEN CHOOSE i \in 1..Len(library) :
            library[i].id = id /\ \A j \in 1..(i - 1) : library[j].id # id
    ELSE 0

\* A retain with the test the wrong way round: the entries with the id are kept.
RECURSIVE RetainMatching(_, _)
RetainMatching(library, id) ==
    IF library = <<>> THEN <<>>
    ELSE (IF Head(library).id = id THEN <<Head(library)>> ELSE <<>>)
         \o RetainMatching(Tail(library), id)

\* Vec::retain(|game| game.id != id)
RECURSIVE Retain(_, _)
Retain(library, id) ==
    IF library = <<>> THEN <<>>
    ELSE (IF Head(library).id # id THEN <<Head(library)>> ELSE <<>>) \o Retain(Tail(library), id)

\* An add_game that leaves updated_at as game_from_payload set it.
add_game_build_stale(library, payload, uuid1, now1, uuid2, now2, scan) ==
    LET built == game_from_payload(payload, None, uuid1, now1, scan)
        entry == [built EXCEPT !.id = uuid2, !.added_at = now2]
    IN [ok |-> TRUE, entry |-> entry, library |-> Append(library, entry)]

\* An add_game that puts the new entry first.
add_game_build_front(library, payload, uuid1, now1, uuid2, now2, scan) ==
    LET built == game_from_payload(payload, None, uuid1, now1, scan)
        entry == [built EXCEPT !.id = uuid2, !.added_at = now2, !.updated_at = now2]
    IN [ok |-> TRUE, entry |-> entry, library |-> <<entry>> \o library]

\* add_game between read_library and write_library. uuid1 and now1 are drawn by
\* game_from_payload, uuid2 and now2 by add_game itself.
add_game_build(library, payload, uuid1, now1, uuid2, now2, scan) ==
    LET built == game_from_payload(payload, None, uuid1, now1, scan)
        entry == [built EXCEPT !.id = uuid2, !.added_at = now2, !.updated_at = now2]
    IN [ok |-> TRUE, entry |-> entry, library |-> Append(library, entry)]

\* An update_game that adds the entry when no entry has the id.
update_game_upsert(library, id, payload, now1, now2, scan) ==
    LET at == FindFirst(library, id)
        existing == IF at = 0 THEN None ELSE Some(library[at])
        built == game_from_payload(payload, existing, 0, now1, scan)
        entry == [built EXCEPT !.id = id, !.updated_at = now2]
    IN [ok |-> TRUE, entry |-> entry,
        library |-> IF at = 0 THEN Append(library, entry) ELSE [library EXCEPT ![at] = entry]]

\* An update_game that takes the entry out and puts the new one at the end.
update_game_moves_last(library, id, payload, now1, now2, scan) ==
    LET at == FindFirst(library, id)
    IN IF at = 0 THEN Err("NotFound")
       ELSE LET built == game_from_payload(payload, Some(library[at]), 0, now1, scan)
                entry == [built EXCEPT !.id = id, !.updated_at = now2]
            IN [ok |-> TRUE, entry |-> entry,
                library |-> Append(SubSeq(library, 1, at - 1)
                                       \o SubSeq(library, at + 1, Len(library)), entry)]

\* update_game between read_library and write_library. now1 is read by
\* game_from_payload, now2 by update_game itself.
update_game_build(library, id, payload, now1, now2, scan) ==
    LET at == FindFirst(library, id)
    IN IF at = 0 THEN Err("NotFound")
       ELSE LET built == game_from_payload(payload, Some(library[at]), 0, now1, scan)
                entry == [built EXCEPT !.id = id, !.updated_at = now2]
            IN [ok |-> TRUE, entry |-> entry, library |-> [library EXCEPT ![at] = entry]]

\* remove_game between read_library and write_library
remove_game_build(library, id) ==
    LET kept == Retain(library, id)
    IN IF Len(kept) = Len(library) THEN Err("NotFound")
       ELSE [ok |-> TRUE, entry |-> None, library |-> kept]

\* collection.sort_by(|a, b| b.updated_at.cmp(&a.updated_at)) : stable, newest first
RECURSIVE InsertByUpdated(_, _)
InsertByUpdated(e, s) ==
    IF s = <<>> THEN <<e>>
    ELSE IF e.updated_at > Head(s).updated_at THEN <<e>> \o s
    ELSE <<Head(s)>> \o InsertByUpdated(e, Tail(s))

RECURSIVE SortByUpdatedDesc(_)
SortByUpdatedDesc(s) ==
    IF s = <<>> THEN <<>>
    ELSE InsertByUpdated(s[Len(s)], SortByUpdatedDesc(SubSeq(s, 1, Len(s) - 1)))

\* ------------------------------------------------------------------ inputs

\* The payloads the commands are called with: a blank title, fields to trim,
\* comma-separated and repeated tags, a path to scan, a size override.
Payloads ==
    { [title |-> <<" ">>, version |-> None, archive_path |-> None,
       install_path |-> None, executable_path |-> None, repacker |-> None,
       tags |-> <<>>, status |-> "not-installed", notes |-> None,
       checksum |-> None, color |-> None, size_override |-> None],
      [title |-> <<" ", "a", " ">>, version |-> Some(<<" ">>),
       archive_path |-> Some(<<"/", "a">>), install_path |-> None,
       executable_path |-> None, repacker |-> Some(<<>>),
       tags |-> << <<"b", ",", " ", "a">>, <<"a">> >>, status |-> "installed",
       notes |-> Some(<<"x", " ">>), checksum |-> None, color |-> None,
       size_override |-> None],
      [title |-> <<"b">>, version |-> Some(<<"A">>), archive_path |-> Some(<<" ">>),
       install_path |-> Some(<<"d">>), executable_path |-> None, repacker |-> None,
       tags |-> << <<",", " ">> >>, status |-> "archived", notes |-> None,
       checksum |-> None, color |-> Some(<<"x">>), size_override |-> Some(7)] }

\* What compute_path_size(path).ok() can give for a path: the scan fails, or a size.
ScanResults == {None, Some(10)}

\* The threads that run commands of the invoke handler.
Procs == {"p1", "p2"}

\* library.json when the application starts: absent, empty, only whitespace, an
\* empty array, or cut short by an earlier interrupted write.
InitialDocs ==
    {None, Some(<<>>), Some(<<TokSpace>>), Some(to_string_pretty(<<>>)), Some(<<TokOpen>>)}

\* ------------------------------------------------------------------- state

VARIABLES
    disk,        \* library.json: None (no file) or Some(content)
    pc,          \* per thread: "idle", "write", "writing", "returned"
    cmd,         \* per thread: the command it runs and its arguments
    loaded,      \* per thread: what read_library returned to the command
    library,     \* per thread: the collection handed to write_library
    result,      \* per thread: what the command returned
    prior,       \* per thread: the document when its fs::write opened the file
    stale,       \* per thread: another write touched the file since its read
    overlapped,  \* per thread: another write touched the file during its write
    lastWriter,  \* the thread whose write_all finished last
    removed,     \* the ids remove_game has removed and saved
    clock,       \* the wall clock
    uuids,       \* how many v4 uuids have been drawn
    dirs,        \* the directories that exist
    files,       \* the files downloads created: path -> length in bytes
    queued,      \* what the latest queue_download call returned
    jobs,        \* the download threads, by job id
    events,      \* per job id: the notifications emitted, in order
    probe        \* a call of game_from_payload on its own: arguments and result

storeVars == <<disk, pc, cmd, loaded, library, result, prior, stale, overlapped, lastWriter, removed>>
downloadVars == <<dirs, files, queued, jobs, events>>
vars == <<storeVars, clock, uuids, downloadVars, probe>>

NoCmd == [name |-> "none", id |-> 0, payload |-> None]
NoResult == Err("none")
NoProbe == [payload |-> None, existing |-> None, scan |-> None, entry |-> None]

\* The record store with library.json holding doc and n uuids drawn so far.
StoreInitWith(doc, n) ==
    /\ disk = doc
    /\ pc = [p \in Procs |-> "idle"]
    /\ cmd = [p \in Procs |-> NoCmd]
    /\ loaded = [p \in Procs |-> NoResult]
    /\ library = [p \in Procs |-> <<>>]
    /\ result = [p \in Procs |-> NoResult]
    /\ prior = [p \in Procs |-> None]
    /\ stale = [p \in Procs |-> FALSE]
    /\ overlapped = [p \in Procs |-> FALSE]
    /\ lastWriter = "none"
    /\ removed = {}
    /\ clock = 0
    /\ uuids = n

StoreInit == \E doc \in InitialDocs : StoreInitWith(doc, 0)

\* A command starts on thread p.
Begin(p, name, id, payload) ==
    /\ pc[p] = "idle"
    /\ cmd' = [cmd EXCEPT ![p] = [name |-> name, id |-> id, payload |-> payload]]
    /\ stale' = [stale EXCEPT ![p] = FALSE]
    /\ overlapped' = [overlapped EXCEPT ![p] = FALSE]
    /\ prior' = [prior EXCEPT ![p] = None]

\* The command returns r before it wrote anything; read is what read_library gave it.
ReturnEarly(p, read, r) ==
    /\ pc' = [pc EXCEPT ![p] = "returned"]
    /\ loaded' = [loaded EXCEPT ![p] = read]
    /\ library' = [library EXCEPT ![p] = <<>>]
    /\ result' = [result EXCEPT ![p] = r]

\* The command goes on to write_library with what it built.
GoWrite(p, read, built) ==
    /\ pc' = [pc EXCEPT ![p] = "write"]
    /\ loaded' = [loaded EXCEPT ![p] = read]
    /\ library' = [library EXCEPT ![p] = built.library]
    /\ result' = [result EXCEPT ![p] = Ok(built.entry)]

\* load_library: read_library, then sorted newest first
load_library(p) ==
    /\ Begin(p, "load_library", 0, None)
    /\ LET read == read_library(disk)
       IN IF read.ok
          THEN ReturnEarly(p, read, Ok(SortByUpdatedDesc(read.value)))
          ELSE ReturnEarly(p, read, Err(read.error))
    /\ UNCHANGED <<disk, lastWriter, removed, clock, uuids, downloadVars, probe>>

\* add_game up to its call of write_library
add_game(p, payload) ==
    /\ Begin(p, "add_game", 0, Some(payload))
    /\ LET read == read_library(disk)
       IN IF ~read.ok
          THEN /\ ReturnEarly(p, read, Err(read.error))
               /\ UNCHANGED <<clock, uuids>>
          ELSE /\ uuids + 2 <= MaxUuid
               /\ \E now2 \in {clock, Min(clock + 1, MaxClock)}, scan \in ScanResults :
                    /\ IsSome(ScanTarget(payload)) \/ scan = None
                    /\ GoWrite(p, read,
                               add_game_build(read.value, payload, uuids + 1, clock,
                                              uuids + 2, now2, scan))
                    /\ clock' = now2
               /\ uuids' = uuids + 2
    /\ UNCHANGED <<disk, lastWriter, removed, downloadVars, probe>>

\* update_game up to its call of write_library
update_game(p, id, payload) ==
    /\ Begin(p, "update_game", id, Some(payload))
    /\ LET read == read_library(disk)
       IN IF ~read.ok
          THEN /\ ReturnEarly(p, read, Err(read.error))
               /\ UNCHANGED clock
          ELSE \E now2 \in {clock, Min(clock + 1, MaxClock)}, scan \in ScanResults :
                 /\ IsSome(ScanTarget(payload)) \/ scan = None
                 /\ LET built == update_game_build(read.value, id, payload, clock, now2, scan)
                    IN IF built.ok
                       THEN GoWrite(p, read, built) /\ clock' = now2
                       ELSE /\ ReturnEarly(p, read, Err(built.error))
                            /\ now2 = clock
                            /\ scan = None
                            /\ UNCHANGED clock
    /\ UNCHANGED <<disk, lastWriter, removed, uuids, downloadVars, probe>>

\* remove_game up to its call of write_library
remove_game(p, id) ==
    /\ Begin(p, "remove_game", id, None)
    /\ LET read == read_library(disk)
       IN IF ~read.ok
          THEN ReturnEarly(p, read, Err(read.error))
          ELSE LET built == remove_game_build(read.value, id)
               IN IF built.ok
                  THEN GoWrite(p, read, built)
                  ELSE ReturnEarly(p, read, Err(built.error))
    /\ UNCHANGED <<disk, lastWriter, removed, clock, uuids, downloadVars, probe>>

\* Another thread's write touched the file: every thread that has read and not
\* yet opened holds a stale collection, every thread that is writing is overlapped.
Touch(p, done) ==
    /\ stale' = [q \in Procs |-> IF q # p /\ pc[q] = "write" THEN TRUE ELSE stale[q]]
    /\ overlapped' = [q \in Procs |->
                        IF q # p /\ pc[q] = "writing" THEN TRUE
                        ELSE IF q = p /\ ~done /\ \E r \in Procs \ {p} : pc[r] = "writing"
                        THEN TRUE
                        ELSE overlapped[q]]

\* A write_library that opens library.json without truncating it.
write_open_no_truncate(p) ==
    /\ pc[p] = "write"
    /\ pc' = [pc EXCEPT ![p] = "writing"]
    /\ prior' = [prior EXCEPT ![p] = disk]
    /\ disk' = IF IsSome(disk) THEN disk ELSE Some(<<>>)
    /\ Touch(p, FALSE)
    /\ UNCHANGED <<cmd, loaded, library, result, lastWriter, removed, clock, uuids, downloadVars, probe>>

\* write_library: fs::write opens library.json, creating or truncating it
write_open(p) ==
    /\ pc[p] = "write"
    /\ pc' = [pc EXCEPT ![p] = "writing"]
    /\ prior' = [prior EXCEPT ![p] = disk]
    /\ disk' = Some(<<>>)
    /\ Touch(p, FALSE)
    /\ UNCHANGED <<cmd, loaded, library, result, lastWriter, removed, clock, uuids, downloadVars, probe>>

\* write_library fails before the file is opened (resolve_library_path,
\* create_dir_all, to_string_pretty, or the open itself)
write_open_fail(p) ==
    /\ pc[p] = "write"
    /\ pc' = [pc EXCEPT ![p] = "returned"]
    /\ result' = [result EXCEPT ![p] = Err("IoFailure")]
    /\ UNCHANGED <<disk, cmd, loaded, library, prior, stale, overlapped, lastWriter,
                   removed, clock, uuids, downloadVars, probe>>

\* write_library: fs::write writes the whole payload and the command returns
write_all(p) ==
    /\ pc[p] = "writing"
    /\ pc' = [pc EXCEPT ![p] = "returned"]
    /\ disk' = Some(WriteAt0(to_string_pretty(library[p]), Unwrap(disk)))
    /\ lastWriter' = p
    /\ removed' = IF cmd[p].name = "remove_game" THEN removed \cup {cmd[p].id} ELSE removed
    /\ Touch(p, TRUE)
    /\ UNCHANGED <<cmd, loaded, library, result, prior, clock, uuids, downloadVars, probe>>

\* write_library: fs::write fails after k tokens of the payload were written
write_fail(p, k) ==
    /\ pc[p] = "writing"
    /\ k < Len(to_string_pretty(library[p]))
    /\ pc' = [pc EXCEPT ![p] = "returned"]
    /\ disk' = Some(WriteAt0(SubSeq(to_string_pretty(library[p]), 1, k), Unwrap(disk)))
    /\ result' = [result EXCEPT ![p] = Err("IoFailure")]
    /\ Touch(p, TRUE)
    /\ UNCHANGED <<cmd, loaded, library, prior, lastWriter, removed, clock, uuids, downloadVars, probe>>

\* The caller takes the result; the thread is free for the next command.
Return(p) ==
    /\ pc[p] = "returned"
    /\ pc' = [pc EXCEPT ![p] = "idle"]
    /\ cmd' = [cmd EXCEPT ![p] = NoCmd]
    /\ loaded' = [loaded EXCEPT ![p] = NoResult]
    /\ library' = [library EXCEPT ![p] = <<>>]
    /\ result' = [result EXCEPT ![p] = NoResult]
    /\ prior' = [prior EXCEPT ![p] = None]
    /\ stale' = [stale EXCEPT ![p] = FALSE]
    /\ overlapped' = [overlapped EXCEPT ![p] = FALSE]
    /\ UNCHANGED <<disk, lastWriter, removed, clock, uuids, downloadVars, probe>>

\* Time passes.
Tick ==
    /\ clock < MaxClock
    /\ clock' = clock + 1
    /\ UNCHANGED <<storeVars, uuids, downloadVars, probe>>

\* ------------------------------------------------------------------- paths

\* the position of the last c in s, 0 if there is none
LastIndexOf(s, c) ==
    IF c \in SeqToSet(s) THEN CHOOSE i \in 1..Len(s) : s[i] = c /\ \A j \in (i + 1)..Len(s) : s[j] # c
    ELSE 0

\* Path::file_name of a path that ends in a normal component
FileName(path) == SubSeq(path, LastIndexOf(path, "/") + 1, Len(path))

\* Path::extension(..).is_some(): the file name has a dot that is not its first character
HasExtension(path) == LastIndexOf(FileName(path), ".") > 1

\* Path::join: an absolute child replaces the parent
Join(base, child) ==
    IF child # <<>> /\ Head(child) = "/" THEN child
    ELSE IF base = <<>> THEN child
    ELSE IF base[Len(base)] = "/" THEN base \o child
    ELSE base \o <<"/">> \o child

\* Path::parent: None for the root and the empty path, the empty path for a
\* single relative component
Parent(path) ==
    IF path = <<>> \/ path = <<"/">> THEN None
    ELSE IF LastIndexOf(path, "/") = 0 THEN Some(<<>>)
    ELSE IF LastIndexOf(path, "/") = 1 THEN Some(<<"/">>)
    ELSE Some(SubSeq(path, 1, LastIndexOf(path, "/") - 1))

\* the directories create_dir_all(path) leaves in existence: path and its ancestors
RECURSIVE Ancestors(_)
Ancestors(path) ==
    IF path = <<>> \/ path = <<"/">> THEN {}
    ELSE {path} \cup (IF IsSome(Parent(path)) THEN Ancestors(Unwrap(Parent(path))) ELSE {})

\* infer_file_name: the last path segment of a url that parses. A url parses
\* when it starts with "h", which stands for "http://host"; what follows is its path.
infer_file_name(url) ==
    IF url = <<>> \/ Head(url) # "h" THEN None
    ELSE LET segments == Split(Tail(url), "/")
             last == segments[Len(segments)]
         IN IF last = <<>> THEN None ELSE Some(last)

\* format!("download-{id}")
FallbackName(id) == <<"d", "o", "w", "n", "l", "o", "a", "d", "-", ToString(id)>>

\* queue_download's display name: the given one unless blank, else the url's, else the fallback
ResolveName(url, file_name, id) ==
    IF IsSome(file_name) /\ Trim(Unwrap(file_name)) # <<>> THEN Unwrap(file_name)
    ELSE IF IsSome(infer_file_name(url)) THEN Unwrap(infer_file_name(url))
    ELSE FallbackName(id)

\* queue_download's target_path
ResolveTarget(destination, name, isDir) ==
    IF isDir \/ ~HasExtension(destination) THEN Join(destination, name) ELSE destination

\* An is_success that takes every status below 400 as a success.
is_success_below_400(status) == 200 <= status /\ status <= 399

\* StatusCode::is_success
is_success(status) == 200 <= status /\ status <= 299

\* --------------------------------------------------------- download engine

\* The calls of queue_download: a blank url, a blank destination, a destination
\* that is a directory, one without an extension, one with an extension, and an
\* absolute file name.
QueueInputs ==
    { [url |-> <<" ">>, destination |-> <<"e">>, file_name |-> None],
      [url |-> <<"h", "/", "f">>, destination |-> <<" ">>, file_name |-> None],
      [url |-> <<"h", "/", "f">>, destination |-> <<"d", ".", "x">>, file_name |-> None],
      [url |-> <<"h">>, destination |-> <<"e">>, file_name |-> Some(<<" ">>)],
      [url |-> <<"x">>, destination |-> <<"e", "/", "f", ".", "x">>, file_name |-> Some(<<"a">>)],
      [url |-> <<"h", "/", "f">>, destination |-> <<"e">>, file_name |-> Some(<<"/", "a">>)] }

\* The status codes a server answers with.
Statuses == {200, 304, 404}

\* The body lengths a server sends: nothing, less than a buffer, more than one.
BodySizes == {0, DOWNLOAD_BUFFER \div 2, DOWNLOAD_BUFFER + 1}

\* What one response.read(&mut buffer) can return with rem bytes left: a full
\* buffer or a short read, never 0 before the end
ReadSizes(rem) == {Min(rem, DOWNLOAD_BUFFER), Min(rem, DOWNLOAD_BUFFER \div 2)}

DownloadInit ==
    /\ dirs = {<<"d", ".", "x">>}
    /\ files = <<>>
    /\ queued = NoResult
    /\ jobs = <<>>
    /\ events = <<>>

\* f with x mapped to v, x added to its domain when new
Put(f, x, v) == [y \in DOMAIN f \cup {x} |-> IF y = x THEN v ELSE f[y]]

JobIds == DOMAIN jobs

\* emit_all(kind, payload) of job id; the result of the call is dropped
Emit(id, event) == events' = [events EXCEPT ![id] = Append(@, event)]

\* What emit_all can return: the sink took the notification, or it did not.
Deliveries == {"delivered", "failed"}

\* A progress notification that carries the length of the chunk just written.
DownloadProgressEvent_chunk(id, job, processed) ==
    [kind |-> "download-progress", id |-> id, file_name |-> job.file_name,
     processed |-> processed - job.downloaded, total |-> job.total]

\* DownloadProgressEvent { id, file_name, processed, total }; job is the job
\* before the chunk is counted
DownloadProgressEvent(id, job, processed) ==
    [kind |-> "download-progress", id |-> id, file_name |-> job.file_name,
     processed |-> processed, total |-> job.total]

DownloadCompleteEvent(id, job) ==
    [kind |-> "download-complete", id |-> id, file_name |-> job.file_name,
     destination |-> job.target]

DownloadErrorEvent(id, job) ==
    [kind |-> "download-error", id |-> id, file_name |-> job.file_name,
     message |-> job.ret.error]

\* The event the spawned closure emits once download_file has returned ret.
TerminalEvent(id, job) ==
    IF job.ret.ok THEN DownloadCompleteEvent(id, job) ELSE DownloadErrorEvent(id, job)

\* A check for emptiness that does not trim.
IsEmptyUntrimmed(s) == s = <<>>

\* value.trim().is_empty()
IsBlank(s) == Trim(s) = <<>>

\* queue_download: validation, name and destination, the parent directory, the spawn.
\* When create_dir_all fails the id drawn is dropped with the error: ids are fresh
\* either way, so the draw is counted only when a job gets the id.
queue_download(url, destination, file_name) ==
    /\ uuids < MaxUuid
    /\ IF IsBlank(url) \/ IsBlank(destination)
       THEN /\ queued' = Err("InvalidArgument")
            /\ UNCHANGED <<uuids, dirs, jobs, events>>
       ELSE LET id == uuids + 1
                name == ResolveName(url, file_name, id)
                target == ResolveTarget(destination, name, destination \in dirs)
                parent == Parent(target)
            IN \/ /\ IsSome(parent)
                  /\ queued' = Err("IoFailure")
                  /\ UNCHANGED <<uuids, dirs, jobs, events>>
               \/ /\ uuids' = id
                  /\ dirs' = dirs \cup (IF IsSome(parent) THEN Ancestors(Unwrap(parent)) ELSE {})
                  /\ jobs' = Put(jobs, id, [pc |-> "spawned", url |-> url, file_name |-> name,
                                            target |-> target, status |-> 0, body |-> 0,
                                            total |-> None, remaining |-> 0,
                                            downloaded |-> 0, ret |-> NoResult,
                                            undelivered |-> FALSE])
                  /\ events' = Put(events, id, <<>>)
                  /\ queued' = Ok([id |-> id, file_name |-> name, destination |-> target])
    /\ UNCHANGED <<probe, storeVars, clock, files>>

\* A failure that takes every running job down with it.
Returns_every_job(id, ret) ==
    jobs' = [j \in JobIds |->
                IF j = id \/ (~ret.ok /\ jobs[j].pc # "done")
                THEN [jobs[j] EXCEPT !.pc = "returned", !.ret = ret,
                                     !.total = None, !.remaining = 0, !.downloaded = 0]
                ELSE jobs[j]]

\* download_file returns ret: its counters, buffer and file handle are dropped.
\* status and body stay: they record what the server answered.
Returns(id, ret) ==
    jobs' = [jobs EXCEPT ![id].pc = "returned", ![id].ret = ret,
                         ![id].total = None, ![id].remaining = 0, ![id].downloaded = 0]

\* download_file: the client is built and the request sent; the status is checked
send(id) ==
    /\ id \in JobIds
    /\ jobs[id].pc = "spawned"
    /\ \/ Returns(id, Err(<<"ClientError">>))
       \/ Returns(id, Err(<<"SendError">>))
       \/ \E status \in Statuses, body \in BodySizes, declared \in BOOLEAN :
            IF ~is_success(status)
            THEN /\ body = 0 /\ ~declared
                 /\ jobs' = [jobs EXCEPT ![id].pc = "returned", ![id].status = status,
                                        ![id].ret = Err(<<"DownloadFailed", status>>)]
            ELSE jobs' = [jobs EXCEPT ![id].pc = "connected", ![id].status = status,
                                      ![id].body = body,
                                      ![id].total = IF declared THEN Some(body) ELSE None,
                                      ![id].remaining = body]
    /\ UNCHANGED <<probe, storeVars, clock, uuids, dirs, files, queued, events>>

\* download_file: File::create(target) creates or truncates the destination
create(id) ==
    /\ id \in JobIds
    /\ jobs[id].pc = "connected"
    /\ \/ /\ Returns(id, Err(<<"CreateError">>))
          /\ UNCHANGED files
       \/ /\ jobs' = [jobs EXCEPT ![id].pc = "streaming"]
          /\ files' = Put(files, jobs[id].target, 0)
    /\ UNCHANGED <<probe, storeVars, clock, uuids, dirs, queued, events>>

\* the length of the file at path once n bytes are written at offset
Written(path, offset, n) ==
    IF files[path] >= offset + n THEN files[path] ELSE offset + n

\* A turn of the loop that emits no progress notification.
transfer_silent(id) ==
    /\ id \in JobIds
    /\ jobs[id].pc = "streaming"
    /\ jobs[id].remaining > 0
    /\ \E n \in ReadSizes(jobs[id].remaining) :
         LET job == jobs[id]
         IN /\ files' = [files EXCEPT ![job.target] = Written(job.target, job.downloaded, n)]
            /\ jobs' = [jobs EXCEPT ![id].downloaded = @ + n, ![id].remaining = @ - n]
    /\ UNCHANGED <<probe, storeVars, clock, uuids, dirs, queued, events>>

\* A turn of the loop that gives the transfer up when the sink did not take the
\* progress notification.
transfer_checks_delivery(id) ==
    /\ id \in JobIds
    /\ jobs[id].pc = "streaming"
    /\ jobs[id].remaining > 0
    /\ \E n \in ReadSizes(jobs[id].remaining), delivery \in Deliveries :
         LET job == jobs[id]
             downloaded == job.downloaded + n
         IN /\ files' = [files EXCEPT ![job.target] = Written(job.target, job.downloaded, n)]
            /\ IF delivery = "failed"
               THEN jobs' = [jobs EXCEPT ![id].pc = "returned", ![id].ret = Err(<<"EmitError">>),
                                        ![id].total = None, ![id].remaining = 0,
                                        ![id].downloaded = 0, ![id].undelivered = TRUE]
               ELSE jobs' = [jobs EXCEPT ![id].downloaded = downloaded, ![id].remaining = @ - n]
            /\ Emit(id, DownloadProgressEvent(id, job, downloaded))
    /\ UNCHANGED <<probe, storeVars, clock, uuids, dirs, queued>>

\* download_file: one turn of the loop that reads bytes: they are written at the
\* handle's offset, counted, and a progress notification is emitted; whether the
\* sink took it is recorded and has no other effect
transfer(id) ==
    /\ id \in JobIds
    /\ jobs[id].pc = "streaming"
    /\ jobs[id].remaining > 0
    /\ \E n \in ReadSizes(jobs[id].remaining), delivery \in Deliveries :
         LET job == jobs[id]
             downloaded == job.downloaded + n
         IN /\ files' = [files EXCEPT ![job.target] = Written(job.target, job.downloaded, n)]
            /\ jobs' = [jobs EXCEPT ![id].downloaded = downloaded, ![id].remaining = @ - n,
                                   ![id].undelivered = @ \/ delivery = "failed"]
            /\ Emit(id, DownloadProgressEvent(id, job, downloaded))
    /\ UNCHANGED <<probe, storeVars, clock, uuids, dirs, queued>>

\* download_file: response.read fails
read_error(id) ==
    /\ id \in JobIds
    /\ jobs[id].pc = "streaming"
    /\ Returns(id, Err(<<"ReadError">>))
    /\ UNCHANGED <<probe, storeVars, clock, uuids, dirs, files, queued, events>>

\* download_file: file.write_all fails, after m of the bytes read were written
write_error(id) ==
    /\ id \in JobIds
    /\ jobs[id].pc = "streaming"
    /\ jobs[id].remaining > 0
    /\ \E m \in {0, 1} :
         files' = [files EXCEPT ![jobs[id].target] = Written(jobs[id].target, jobs[id].downloaded, m)]
    /\ Returns(id, Err(<<"WriteError">>))
    /\ UNCHANGED <<probe, storeVars, clock, uuids, dirs, queued, events>>

\* download_file: response.read returns 0, the loop ends, the file is flushed
end_of_stream(id) ==
    /\ id \in JobIds
    /\ jobs[id].pc = "streaming"
    /\ jobs[id].remaining = 0
    /\ \/ Returns(id, Ok(<<>>))
       \/ Returns(id, Err(<<"FlushError">>))
    /\ UNCHANGED <<probe, storeVars, clock, uuids, dirs, files, queued, events>>

\* A closure whose error branch falls through to the completion.
report_falls_through(id) ==
    /\ id \in JobIds
    /\ jobs[id].pc = "returned"
    /\ jobs' = [jobs EXCEPT ![id].pc = "done"]
    /\ events' = [events EXCEPT ![id] =
                     IF jobs[id].ret.ok THEN Append(@, DownloadCompleteEvent(id, jobs[id]))
                     ELSE @ \o <<DownloadErrorEvent(id, jobs[id]), DownloadCompleteEvent(id, jobs[id])>>]
    /\ UNCHANGED <<probe, storeVars, clock, uuids, dirs, files, queued>>

\* the spawned closure: download_file has returned, the terminal notification is emitted
report(id) ==
    /\ id \in JobIds
    /\ jobs[id].pc = "returned"
    /\ \E delivery \in Deliveries :
         jobs' = [jobs EXCEPT ![id].pc = "done", ![id].undelivered = @ \/ delivery = "failed"]
    /\ Emit(id, TerminalEvent(id, jobs[id]))
    /\ UNCHANGED <<probe, storeVars, clock, uuids, dirs, files, queued>>

\* ------------------------------------------------- the entry builder alone

\* Tag lists: none, pieces to trim and repeat, only separators, mixed case, a
\* prefix of another tag, blank tags, inner whitespace.
TagLists ==
    { <<>>,
      << <<"b", ",", " ", " ", "a">>, <<"a">> >>,
      << <<",", " ", ",">> >>,
      << <<"a">>, <<"B">>, <<"a", "b">> >>,
      << <<" ", "b", " ">>, <<"b">>, <<"A", ",", "a", ",", "A">> >>,
      << <<>>, <<" ">> >>,
      << <<"b", "\t">>, <<"a", " ", "b", ",", "a">> >> }

\* What a caller sends for an optional string: nothing, the empty string, blanks,
\* a value to trim.
OptionalStrings == {None, Some(<<>>), Some(<<" ">>), Some(<<" ", "a", " ">>)}

ProbePayloads ==
    { [title |-> title, version |-> version, archive_path |-> archive_path,
       install_path |-> install_path, executable_path |-> None, repacker |-> None,
       tags |-> tags, status |-> "installed", notes |-> version,
       checksum |-> None, color |-> None, size_override |-> size_override] :
        title \in {<<"\t">>, <<"b", " ">>},
        version \in OptionalStrings,
        archive_path \in {None, Some(<<" ">>), Some(<<"/", "a">>)},
        install_path \in {None, Some(<<"d">>)},
        tags \in TagLists,
        size_override \in {None, Some(7)} }

\* Entries built earlier: one with tags and a size, one without.
ProbeEntries ==
    { [FreshEntry(1, 0) EXCEPT !.title = <<"x">>, !.tags = << <<"x">> >>,
                               !.version = Some(<<"x">>), !.size_bytes = Some(3)],
      [FreshEntry(1, 0) EXCEPT !.title = <<"x">>] }

\* The calls of game_from_payload: on create and on update, with what the scan
\* gives when the payload names a path.
ProbeInputs ==
    { [payload |-> Some(payload), existing |-> existing, scan |-> scan, entry |-> None] :
        payload \in ProbePayloads,
        existing \in {None} \cup {Some(entry) : entry \in ProbeEntries},
        scan \in ScanResults }

BuildInit ==
    /\ StoreInitWith(None, 1)
    /\ DownloadInit
    /\ probe \in {input \in ProbeInputs :
                     IsSome(ScanTarget(Unwrap(input.payload))) \/ input.scan = None}

\* game_from_payload called with the arguments of the probe
build ==
    /\ IsSome(probe.payload)
    /\ ~IsSome(probe.entry)
    /\ probe' = [probe EXCEPT !.entry =
                    Some(game_from_payload(Unwrap(probe.payload), probe.existing,
                                           uuids + 1, clock, probe.scan))]
    /\ uuids' = IF IsSome(probe.existing) THEN uuids ELSE uuids + 1
    /\ UNCHANGED <<storeVars, clock, downloadVars>>

\* ------------------------------------------------------------------- crash

\* The application dies: its threads are gone, library.json stays as it is.
Crash ==
    /\ \E p \in Procs : pc[p] \in {"write", "writing"}
    /\ pc' = [p \in Procs |-> "idle"]
    /\ cmd' = [p \in Procs |-> NoCmd]
    /\ loaded' = [p \in Procs |-> NoResult]
    /\ library' = [p \in Procs |-> <<>>]
    /\ result' = [p \in Procs |-> NoResult]
    /\ prior' = [p \in Procs |-> None]
    /\ stale' = [p \in Procs |-> FALSE]
    /\ overlapped' = [p \in Procs |-> FALSE]
    /\ UNCHANGED <<disk, lastWriter, removed, clock, uuids, downloadVars, probe>>

\* ------------------------------------------------------------ specifications

Init == StoreInit /\ DownloadInit /\ probe = NoProbe

\* The download engine never reads library.json: one initial document is enough for it.
DownloadOnlyInit == Init /\ disk = None

\* The commands of the invoke handler run by the threads procs with the payloads given.
StoreSteps(procs, payloads) ==
    \/ \E p \in procs : load_library(p)
    \/ \E p \in procs, payload \in payloads : add_game(p, payload)
    \/ \E p \in procs, id \in 0..MaxUuid, payload \in payloads : update_game(p, id, payload)
    \/ \E p \in procs, id \in 0..MaxUuid : remove_game(p, id)
    \/ \E p \in procs : write_open(p)
    \/ \E p \in procs : write_open_fail(p)
    \/ \E p \in procs : write_all(p)
    \/ \E p \in procs, k \in 0..MaxUuid : write_fail(p, k)
    \/ \E p \in procs : Return(p)
    \/ Tick
    \/ Crash

\* One command at a time: the single logical writer the design assumes.
StoreNext == StoreSteps({"p1"}, Payloads)

\* library.json after one add_game on an empty store, and the uuids it drew.
SeedPayload == CHOOSE pl \in Payloads : pl.title = <<"b">>

SeedLibrary == add_game_build(<<>>, SeedPayload, 1, 0, 2, 0, None).library

ConcurrentInit ==
    StoreInitWith(Some(to_string_pretty(SeedLibrary)), 2) /\ DownloadInit /\ probe = NoProbe

\* The payloads whose build needs no scan of the file system.
ConcurrentPayloads == {pl \in Payloads : IsSome(pl.size_override) \/ ~IsSome(ScanTarget(pl))}

\* Two threads run one command each, at once; nothing in the code serialises them.
ConcurrentNext ==
    \/ \E p \in Procs : load_library(p)
    \/ \E p \in Procs, payload \in ConcurrentPayloads : add_game(p, payload)
    \/ \E p \in Procs, id \in 0..MaxUuid, payload \in ConcurrentPayloads : update_game(p, id, payload)
    \/ \E p \in Procs, id \in 0..MaxUuid : remove_game(p, id)
    \/ \E p \in Procs : write_open(p)
    \/ \E p \in Procs : write_open_fail(p)
    \/ \E p \in Procs : write_all(p)
    \/ \E p \in Procs, k \in 0..MaxUuid : write_fail(p, k)

\* The steps of the threads queue_download has spawned.
JobSteps ==
    \/ \E id \in 1..MaxUuid : send(id)
    \/ \E id \in 1..MaxUuid : create(id)
    \/ \E id \in 1..MaxUuid : transfer(id)
    \/ \E id \in 1..MaxUuid : read_error(id)
    \/ \E id \in 1..MaxUuid : write_error(id)
    \/ \E id \in 1..MaxUuid : end_of_stream(id)
    \/ \E id \in 1..MaxUuid : report(id)

\* The download engine with at most MaxJobs jobs queued.
DownloadNext ==
    \/ \E input \in QueueInputs :
         Cardinality(JobIds) < MaxJobs /\ queue_download(input.url, input.destination, input.file_name)
    \/ JobSteps

\* The calls that start the jobs running side by side: one into a directory, one
\* onto a file path, so that two jobs have the same or different destinations.
PeerInputs ==
    {input \in QueueInputs : input.destination \in {<<"d", ".", "x">>, <<"e", "/", "f", ".", "x">>}}

\* The download engine with up to MaxPeers jobs at once.
PeersNext ==
    \/ \E input \in PeerInputs :
         Cardinality(JobIds) < MaxPeers /\ queue_download(input.url, input.destination, input.file_name)
    \/ JobSteps

\* The record store alone: the commands of the invoke handler on library.json.
StoreSpec == Init /\ [][StoreNext]_vars

\* The download engine alone: queue_download and the threads it spawns.
DownloadSpec == DownloadOnlyInit /\ [][DownloadNext]_vars

\* The record store with concurrent commands.
ConcurrentSpec == ConcurrentInit /\ [][ConcurrentNext]_vars

\* The entry builder alone.
BuildNext == build

BuildSpec == BuildInit /\ [][BuildNext]_vars

\* The download engine with jobs running side by side.
PeersSpec == DownloadOnlyInit /\ [][PeersNext]_vars

Next == StoreSteps(Procs, Payloads) \/ DownloadNext

\* The whole application.
Spec == Init /\ [][Next]_vars

\* ------------------------------------------------------------------ claims

\* The collection load returns for the document as it is now.
Persisted == read_library(disk)

\* Thread p has returned from the command name.
Returned(p, name) == pc[p] = "returned" /\ cmd[p].name = name

\* Thread p has returned from the command name, which read the collection and saved.
Saved(p, name) == Returned(p, name) /\ loaded[p].ok /\ result[p].ok

\* s without its element at position i
RemoveAt(s, i) == SubSeq(s, 1, i - 1) \o SubSeq(s, i + 1, Len(s))

\* C4: update_game with an id that no persisted entry has fails with NotFound,
\* never reaches write_library, and load returns after the call what it
\* returned before it.
UpdateUnknownIdFails ==
    \A p \in Procs :
        (/\ cmd[p].name = "update_game"
         /\ loaded[p].ok
         /\ cmd[p].id \notin Ids(loaded[p].value))
        => /\ pc[p] = "returned"
           /\ result[p] = Err("NotFound")
           /\ Persisted = loaded[p]

UpdateUnknownIdSeen ==
    \E p \in Procs :
        /\ Returned(p, "update_game")
        /\ loaded[p].ok
        /\ Len(loaded[p].value) = 2
        /\ cmd[p].id \notin Ids(loaded[p].value)
        /\ result[p] = Err("NotFound")

\* C5, first half: once remove_game of a persisted id has saved, the collection
\* is the one it read less the one entry with that id, the others in order.
RemoveShrinksByOne ==
    \A p \in Procs :
        Saved(p, "remove_game")
        => /\ cmd[p].id \in Ids(loaded[p].value)
           /\ Persisted = Ok(RemoveAt(loaded[p].value, FindFirst(loaded[p].value, cmd[p].id)))
           /\ Len(Persisted.value) = Len(loaded[p].value) - 1

\* C5, second half: remove_game of an id that was removed before fails with
\* NotFound and leaves the document as it is.
SecondRemoveFails ==
    \A p \in Procs :
        (/\ pc[p] = "idle"
         /\ cmd'[p].name = "remove_game"
         /\ cmd'[p].id \in removed
         /\ Persisted.ok)
        => /\ pc'[p] = "returned"
           /\ result'[p] = Err("NotFound")
           /\ disk' = disk

\* C5: remove_game shrinks the collection by exactly one entry, and a second
\* remove_game of the same id fails with NotFound and changes nothing.
RemoveOnceThenNotFound == []RemoveShrinksByOne /\ [][SecondRemoveFails]_vars

RemoveTwiceSeen ==
    \E p \in Procs :
        /\ Returned(p, "remove_game")
        /\ cmd[p].id \in removed
        /\ result[p] = Err("NotFound")
        /\ loaded[p].ok
        /\ Len(loaded[p].value) = 1

\* C6, on the call: the entry update_game returns and stores has the id and
\* the added_at of the entry it replaced.
UpdateKeepsIdentity ==
    \A p \in Procs :
        Saved(p, "update_game")
        => LET at == FindFirst(loaded[p].value, cmd[p].id)
               old == loaded[p].value[at]
               new == result[p].value
           IN /\ at > 0
              /\ new.id = old.id
              /\ new.added_at = old.added_at
              /\ Persisted.ok
              /\ Persisted.value[at] = new

\* C6, across commands: no step changes the added_at a persisted id has.
AddedAtNeverChanges ==
    LET before == Persisted
        after == Persisted'
    IN (before.ok /\ after.ok)
       => \A i \in 1..Len(before.value), j \in 1..Len(after.value) :
             before.value[i].id = after.value[j].id
             => before.value[i].added_at = after.value[j].added_at

\* C6: an entry's id and added_at are fixed at creation, whatever update_game
\* is given as payload.
IdAndAddedAtFixed == []UpdateKeepsIdentity /\ [][AddedAtNeverChanges]_vars

UpdateLaterSeen ==
    \E p \in Procs :
        /\ Saved(p, "update_game")
        /\ result[p].value.updated_at > result[p].value.added_at
        /\ result[p].value.title # loaded[p].value[FindFirst(loaded[p].value, cmd[p].id)].title

\* C7, in every state: every persisted entry has updated_at >= added_at, and
\* the entry add_game returns has the two equal.
UpdatedNotBeforeAdded ==
    /\ Persisted.ok
       => \A i \in 1..Len(Persisted.value) :
             Persisted.value[i].updated_at >= Persisted.value[i].added_at
    /\ \A p \in Procs :
          (cmd[p].name = "add_game" /\ result[p].ok)
          => result[p].value.updated_at = result[p].value.added_at

\* C7, on the call: update_game stamps updated_at with the time it reads.
UpdateStampsNow ==
    \A p \in Procs :
        (pc[p] = "idle" /\ pc'[p] = "write" /\ cmd'[p].name = "update_game")
        => result'[p].value.updated_at = clock'

AddAppendsFreshEntry ==
    \A p \in Procs :
        Saved(p, "add_game")
        => LET new == result[p].value
               payload == Unwrap(cmd[p].payload)
           IN /\ Persisted = Ok(Append(loaded[p].value, new))
              /\ new.id \notin Ids(loaded[p].value)
              /\ new.id \notin removed
              /\ new.added_at = new.updated_at
              /\ Trim(payload.title) = <<>> => new.title = <<"U", "n", "t", "i", "t", "l", "e", "d">>
              /\ Trim(payload.title) # <<>> => new.title = Trim(payload.title)

AddBlankTitleSeen ==
    \E p \in Procs :
        /\ Saved(p, "add_game")
        /\ Len(loaded[p].value) = 1
        /\ Unwrap(cmd[p].payload).title = <<" ">>
        /\ Persisted.value[2].title = <<"U", "n", "t", "i", "t", "l", "e", "d">>

\* C9: a save that is interrupted, by a write error or by the death of the
\* application, leaves a document that loads as the collection before the save
\* or as the collection being saved.
SaveNeverCorrupts ==
    [][\A p \in Procs :
          (pc[p] = "writing" /\ pc'[p] # "writing")
          => Persisted' \in {read_library(prior[p]), Ok(library[p])}]_vars

\* Thread p ran add_game, update_game or remove_game.
Mutation(p) == cmd[p].name \in {"add_game", "update_game", "remove_game"}

\* The change thread q made is not in the collection final, which thread p saved:
\* the entry q added is missing, the entry q removed is there unless p removed
\* it too, the entry q replaced is the one both read unless p replaced it too.
ChangeLost(q, p, final) ==
    LET id == cmd[q].id
        before == loaded[q].value
    IN CASE cmd[q].name = "add_game" -> result[q].value.id \notin Ids(final)
         [] cmd[q].name = "remove_game" ->
              \/ cmd[p].name = "remove_game" /\ cmd[p].id = id
              \/ id \in Ids(final)
         [] cmd[q].name = "update_game" ->
              \A i \in 1..Len(final) :
                 final[i].id = id
                 => \/ final[i] = before[FindFirst(before, id)]
                    \/ cmd[p].name = "update_game" /\ cmd[p].id = id /\ final[i] = result[p].value

\* Threads p and q read the same collection, q saved, then p saved, and both
\* commands returned success.
Interleaved(p, q) ==
    /\ p # q
    /\ Mutation(p) /\ Mutation(q)
    /\ pc[p] = "returned" /\ pc[q] = "returned"
    /\ result[p].ok /\ result[q].ok
    /\ loaded[p].ok /\ loaded[p] = loaded[q]
    /\ stale[p] /\ lastWriter = p
    /\ ~overlapped[p] /\ ~overlapped[q]

\* C10: when two mutations interleave load and save, the document ends as
\* exactly the collection the last one saved, and the other one's change is lost.
LastSaveWins ==
    \A p, q \in Procs :
        Interleaved(p, q)
        => /\ disk = Some(to_string_pretty(library[p]))
           /\ Persisted = Ok(library[p])
           /\ ChangeLost(q, p, library[p])

LostAddSeen ==
    \E p, q \in Procs :
        /\ Interleaved(p, q)
        /\ cmd[q].name = "add_game"
        /\ cmd[p].name = "update_game"
        /\ Persisted.ok
        /\ Len(Persisted.value) = 1

\* The notifications of job id that end it.
Terminals(id) ==
    {i \in 1..Len(events[id]) : events[id][i].kind \in {"download-error", "download-complete"}}

\* How many notifications of job id are of the kind given.
Count(id, kind) == Cardinality({i \in 1..Len(events[id]) : events[id][i].kind = kind})

\* C1: a job emits at most one terminal notification and nothing after it;
\* once download_file has returned the closure can emit it, and once the thread
\* is done exactly one has been emitted.
OneTerminalNotification ==
    \A id \in JobIds :
        /\ Cardinality(Terminals(id)) <= 1
        /\ Terminals(id) \subseteq {Len(events[id])}
        /\ \A i \in 1..Len(events[id]) : events[id][i].id = id
        /\ jobs[id].pc = "returned" => ENABLED report(id)
        /\ jobs[id].pc = "done" <=> Cardinality(Terminals(id)) = 1
        /\ jobs[id].pc = "done" => ~ENABLED (send(id) \/ create(id) \/ transfer(id) \/ report(id))

FailedAfterProgressSeen ==
    \E id \in JobIds :
        /\ jobs[id].pc = "done"
        /\ Len(events[id]) = 3
        /\ events[id][3].kind = "download-error"

\* C2: a job whose download_file returned Ok answered 2xx and emitted progress
\* notifications, at least one if the body is not empty, then one
\* download-complete, and no download-error.
SuccessNotifications ==
    \A id \in JobIds :
        (jobs[id].pc = "done" /\ jobs[id].ret.ok)
        => LET n == Len(events[id])
           IN /\ 200 <= jobs[id].status /\ jobs[id].status <= 299
              /\ n >= 1
              /\ events[id][n].kind = "download-complete"
              /\ \A i \in 1..(n - 1) : events[id][i].kind = "download-progress"
              /\ Count(id, "download-complete") = 1
              /\ Count(id, "download-error") = 0
              /\ jobs[id].body > 0 => Count(id, "download-progress") >= 1
              /\ jobs[id].body > DOWNLOAD_BUFFER => Count(id, "download-progress") >= 2

LargeDownloadCompletedSeen ==
    \E id \in JobIds :
        /\ jobs[id].pc = "done"
        /\ jobs[id].ret.ok
        /\ jobs[id].body > DOWNLOAD_BUFFER
        /\ Len(events[id]) = 4

\* C3: a job whose response status is not 2xx returns DownloadFailed(status)
\* and emits one download-error and no download-complete.
NonSuccessStatusFails ==
    \A id \in JobIds :
        (jobs[id].status # 0 /\ ~(200 <= jobs[id].status /\ jobs[id].status <= 299))
        => /\ jobs[id].pc \in {"returned", "done"}
           /\ jobs[id].ret = Err(<<"DownloadFailed", jobs[id].status>>)
           /\ Count(id, "download-complete") = 0
           /\ Count(id, "download-progress") = 0
           /\ jobs[id].pc = "done"
              => /\ Count(id, "download-error") = 1
                 /\ events[id][1].message = <<"DownloadFailed", jobs[id].status>>

NotModifiedFailedSeen ==
    \E id \in JobIds :
        /\ jobs[id].pc = "done"
        /\ jobs[id].status = 304
        /\ Len(events[id]) = 1

\* ------------------------------------------------------------ queue claims

\* Every job was started for a url that is not blank, and every notification
\* belongs to a job.
NoJobForBlankUrl ==
    /\ DOMAIN events = JobIds
    /\ \A id \in JobIds : Trim(jobs[id].url) # <<>> /\ Trim(jobs[id].target) # <<>>

\* A call with a blank url or destination returns InvalidArgument and changes
\* nothing else: no id drawn, no job, no directory, no file, no notification.
BlankCallChangesNothing ==
    \A input \in QueueInputs :
        (/\ Trim(input.url) = <<>> \/ Trim(input.destination) = <<>>
         /\ queue_download(input.url, input.destination, input.file_name))
        => /\ queued' = Err("InvalidArgument")
           /\ UNCHANGED <<uuids, jobs, dirs, files, events>>

\* C11: queue_download with a url or a destination that is empty or only
\* whitespace fails with InvalidArgument; no job is started for that call, no
\* directory is created and no notification is ever emitted for it.
BlankQueueRejected == []NoJobForBlankUrl /\ [][BlankCallChangesNothing]_vars

BlankQueueRejectedSeen ==
    /\ queued = Err("InvalidArgument")
    /\ jobs = <<>>
    /\ events = <<>>
    /\ dirs = {<<"d", ".", "x">>}

\* Every notification in a job's log carries that job's id and display name.
OwnNotifications ==
    \A id \in JobIds : \A i \in 1..Len(events[id]) :
        events[id][i].id = id /\ events[id][i].file_name = jobs[id].file_name

\* A finished job's last notification tells its own result: the completion when
\* its download_file returned Ok, else the error with its own message.
OwnOutcome ==
    \A id \in JobIds :
        jobs[id].pc = "done" =>
            LET last == events[id][Len(events[id])]
            IN IF jobs[id].ret.ok THEN last.kind = "download-complete"
               ELSE last.kind = "download-error" /\ last.message = jobs[id].ret.error

\* download_file of job id returns an error in this step.
Fails(id) == jobs[id].pc # "returned" /\ jobs'[id].pc = "returned" /\ ~jobs'[id].ret.ok

\* A step of job id leaves the queued descriptor, every other job and every
\* other job's notifications as they were; the step in which it fails emits
\* nothing, and the step that reports the failure appends to its own log only.
JobStepsAlone ==
    \A id \in JobIds :
        jobs'[id] # jobs[id] =>
            /\ queued' = queued
            /\ \A o \in JobIds \ {id} : jobs'[o] = jobs[o] /\ events'[o] = events[o]
            /\ Fails(id) => events' = events

\* The call that starts a job returns the success descriptor of that job and
\* touches no job that runs already.
QueueReturnsDescriptor ==
    \A id \in DOMAIN jobs' \ JobIds :
        /\ queued' = Ok([id |-> id, file_name |-> jobs'[id].file_name,
                         destination |-> jobs'[id].target])
        /\ \A o \in JobIds : jobs'[o] = jobs[o] /\ events'[o] = events[o]

\* C12: a transfer failure of a job is reported only through that job's own
\* error notification; the queue call that started it has returned the success
\* descriptor and is not turned into an error; the failure changes neither the
\* notifications nor the outcome of any other job running at the same time.
FailureStaysInJob ==
    /\ []OwnNotifications
    /\ []OwnOutcome
    /\ [][JobStepsAlone /\ QueueReturnsDescriptor]_vars

FailureBesideRunningJobSeen ==
    \E a \in JobIds, b \in JobIds :
        /\ a # b
        /\ jobs[a].pc = "done" /\ ~jobs[a].ret.ok
        /\ jobs[a].status = 200
        /\ queued.ok
        /\ jobs[b].pc = "streaming" /\ jobs[b].downloaded > 0
        /\ jobs[b].target = jobs[a].target
        /\ files[jobs[b].target] > 0

\* ----------------------------------------------------- notification claims

\* The errors download_file returns: each names a fault of the transfer.
TransferFaults ==
    {<<"ClientError">>, <<"SendError">>, <<"CreateError">>, <<"ReadError">>,
     <<"WriteError">>, <<"FlushError">>} \cup {<<"DownloadFailed", status>> : status \in Statuses}

\* A notification the sink did not take is never the reason a job fails, and a
\* job that has finished has emitted its terminal notification whether or not
\* the sink took it.
DropIsNoFault ==
    \A id \in JobIds :
        /\ (jobs[id].pc \in {"returned", "done"} /\ ~jobs[id].ret.ok)
              => jobs[id].ret.error \in TransferFaults
        /\ jobs[id].pc = "done" => Len(events[id]) >= 1

\* A step that emits a notification of job id emits it once, taken or not. After
\* a progress notification the job goes on streaming with the bytes of the chunk
\* in the file and counted; after the terminal one the job is done with the
\* result download_file returned.
EmitsOnceAndGoesOn ==
    \A id \in JobIds :
        events'[id] # events[id] =>
            /\ Len(events'[id]) = Len(events[id]) + 1
            /\ SubSeq(events'[id], 1, Len(events[id])) = events[id]
            /\ jobs'[id].ret = jobs[id].ret
            /\ LET last == events'[id][Len(events'[id])]
               IN IF last.kind = "download-progress"
                  THEN /\ jobs[id].pc = "streaming" /\ jobs'[id].pc = "streaming"
                       /\ jobs'[id].downloaded = last.processed
                       /\ jobs'[id].remaining = jobs[id].body - last.processed
                       /\ files'[jobs[id].target] >= last.processed
                  ELSE /\ jobs[id].pc = "returned" /\ jobs'[id].pc = "done"
                       /\ last.kind = IF jobs[id].ret.ok THEN "download-complete"
                                      ELSE "download-error"
                       /\ files' = files

\* C13: delivery of notifications is fire-and-forget: when the sink does not
\* take a progress or terminal notification the job neither aborts nor
\* retries; it writes the same bytes and reaches the same terminal outcome as
\* when every delivery succeeds.
DeliveryIsFireAndForget == []DropIsNoFault /\ [][EmitsOnceAndGoesOn]_vars

DroppedYetCompletedSeen ==
    \E id \in JobIds :
        /\ jobs[id].pc = "done"
        /\ jobs[id].undelivered
        /\ jobs[id].ret.ok
        /\ jobs[id].body = DOWNLOAD_BUFFER + 1
        /\ files[jobs[id].target] = jobs[id].body
        /\ Len(events[id]) = 3

\* ------------------------------------------------------ destination claims

\* <hint>/<name> as text
Under(hint, name) == hint \o <<"/">> \o name

\* A valid call that starts a job returns the destination the hint and the
\* resolved name give: the name under the hint when the hint is an existing
\* directory or has no extension, else the hint itself.
DestinationFromHint ==
    \A input \in QueueInputs :
        (/\ Trim(input.url) # <<>> /\ Trim(input.destination) # <<>>
         /\ queue_download(input.url, input.destination, input.file_name)
         /\ queued'.ok)
        => LET hint == input.destination
               descriptor == queued'.value
           IN descriptor.destination =
                 IF hint \in dirs \/ ~HasExtension(hint)
                 THEN Under(hint, descriptor.file_name)
                 ELSE hint

\* The path of the queued descriptor is the path the job writes to and the path
\* its completion notification carries.
OneDestination ==
    /\ queued.ok => /\ queued.value.id \in JobIds
                    /\ queued.value.destination = jobs[queued.value.id].target
    /\ \A id \in JobIds :
          /\ jobs[id].pc = "streaming" => jobs[id].target \in DOMAIN files
          /\ \A i \in 1..Len(events[id]) :
                events[id][i].kind = "download-complete"
                   => events[id][i].destination = jobs[id].target

\* C14: for every valid queue call the destination is <hint>/<resolved file
\* name> when the hint is an existing directory or has no extension, and the
\* hint itself when it has an extension and is not an existing directory; the
\* descriptor's destination is the path the transfer writes to and the path of
\* the completion notification.
DestinationResolved == []OneDestination /\ [][DestinationFromHint]_vars

\* ---------------------------------------------------- entry builder claims

\* The payload and the entry of a call of game_from_payload that has returned.
Built == IsSome(probe.entry)
BuiltPayload == Unwrap(probe.payload)
BuiltEntry == Unwrap(probe.entry)

\* The trimmed pieces between the commas of every tag, the empty ones left out.
TagSet(tags) ==
    UNION {{Trim(piece) : piece \in SeqToSet(Split(tags[i], ","))} : i \in 1..Len(tags)}
        \ {<<>>}

\* C15: for every payload the tags of the built entry are exactly the non-empty
\* trimmed pieces of the input tags split on commas, in ascending byte order,
\* none twice, none empty or blank (["b,  a", "a"] gives ["a", "b"]), whatever
\* the tags of the existing entry.
TagsNormalised ==
    Built =>
        LET tags == BuiltEntry.tags
        IN /\ SeqToSet(tags) = TagSet(BuiltPayload.tags)
           /\ \A i \in 1..(Len(tags) - 1) : StrLess(tags[i], tags[i + 1])
           /\ \A i \in 1..Len(tags) : tags[i] # <<>> /\ Trim(tags[i]) = tags[i]
           /\ BuiltPayload.tags = << <<"b", ",", " ", " ", "a">>, <<"a">> >>
                 => tags = << <<"a">>, <<"b">> >>

TagsNormalisedSeen ==
    /\ Built
    /\ BuiltPayload.tags = << <<" ", "b", " ">>, <<"b">>, <<"A", ",", "a", ",", "A">> >>
    /\ IsSome(probe.existing)
    /\ Unwrap(probe.existing).tags = << <<"x">> >>
    /\ BuiltEntry.tags = << <<"A">>, <<"a">>, <<"b">> >>

\* The optional string fields of an entry.
OptionalFields ==
    {"version", "archive_path", "install_path", "executable_path", "repacker",
     "notes", "checksum", "color"}

\* An optional string as the claim wants it stored: absent, or trimmed and not empty.
AbsentOrTrimmed(o) == ~IsSome(o) \/ (Unwrap(o) # <<>> /\ Trim(Unwrap(o)) = Unwrap(o))

\* C16: after any sequence of add_game and update_game from an empty store,
\* every persisted entry has a title that is not empty, and each of its
\* optional string fields is absent or a trimmed string that is not empty.
StoredFieldsClean ==
    Persisted.ok =>
        \A i \in 1..Len(Persisted.value) :
            LET entry == Persisted.value[i]
            IN /\ entry.title # <<>>
               /\ Trim(entry.title) # <<>>
               /\ \A field \in OptionalFields : AbsentOrTrimmed(entry[field])

StoredFieldsCleanSeen ==
    /\ Saved("p1", "update_game")
    /\ Unwrap(cmd["p1"].payload).version = Some(<<" ">>)
    /\ Unwrap(cmd["p1"].payload).repacker = Some(<<>>)
    /\ Persisted.ok
    /\ \E i \in 1..Len(Persisted.value) :
          /\ Persisted.value[i] = result["p1"].value
          /\ Persisted.value[i].version = None
          /\ Persisted.value[i].repacker = None
          /\ Persisted.value[i].notes = Some(<<"x">>)
          /\ Persisted.value[i].title = <<"a">>
    /\ \E i \in 1..Len(Persisted.value) :
          Persisted.value[i].title = <<"U", "n", "t", "i", "t", "l", "e", "d">>

\* ------------------------------------------------------------ load claims

\* library.json is absent or holds nothing but whitespace.
AbsentOrBlank(doc) == ~IsSome(doc) \/ \A i \in 1..Len(Unwrap(doc)) : Unwrap(doc)[i] = TokSpace

\* library.json is there, holds more than whitespace and is not a complete array
\* of entries.
Malformed(doc) == ~AbsentOrBlank(doc) /\ ~from_str(Unwrap(doc)).ok

\* load_library returns an empty collection for an absent or blank document
\* and CorruptStore for a malformed one.
LoadEmptyOrCorrupt ==
    \A p \in Procs :
        (pc[p] = "idle" /\ load_library(p)) =>
            /\ AbsentOrBlank(disk) => result'[p] = Ok(<<>>)
            /\ Malformed(disk) => result'[p] = Err("CorruptStore")
            /\ disk' = disk

\* A command that starts on a malformed document returns CorruptStore at once:
\* it never reaches write_library and the document stays as it is.
CorruptStorePropagates ==
    \A p \in Procs :
        (pc[p] = "idle" /\ pc'[p] # "idle" /\ Malformed(disk)) =>
            /\ pc'[p] = "returned"
            /\ result'[p] = Err("CorruptStore")
            /\ disk' = disk

\* C17: load returns an empty collection, not an error, when the document is
\* absent or only whitespace, and fails with CorruptStore when it is present
\* and malformed; add_game, update_game and remove_game on a malformed document
\* return that failure and never overwrite the document.
LoadAndCorruptStore == [][LoadEmptyOrCorrupt /\ CorruptStorePropagates]_vars

CorruptStoreKeptSeen ==
    /\ Returned("p1", "add_game")
    /\ result["p1"] = Err("CorruptStore")
    /\ IsSome(disk)
    /\ Len(Unwrap(disk)) = 2
    /\ Unwrap(disk)[1] = TokOpen
    /\ IsTokEntry(Unwrap(disk)[2])

\* An optional path that is still there once trimmed.
Resolved(o) == IsSome(o) /\ Trim(Unwrap(o)) # <<>>

\* C18: the built entry's size_bytes is the payload's override when there is
\* one; otherwise, when the resolved archive path or install path is present,
\* it is the scan's result when the scan succeeds; when the scan fails or
\* neither path is present it is left as it was (absent on create, the existing
\* entry's value on update), and the build succeeds all the same.
SizeBytesRule ==
    Built =>
        LET payload == BuiltPayload
            scanned == Resolved(payload.archive_path) \/ Resolved(payload.install_path)
            before == IF IsSome(probe.existing) THEN Unwrap(probe.existing).size_bytes ELSE None
        IN /\ BuiltEntry.size_bytes =
                 IF IsSome(payload.size_override) THEN payload.size_override
                 ELSE IF scanned /\ IsSome(probe.scan) THEN probe.scan
                 ELSE before
           /\ BuiltEntry.title # <<>>

ScanFailedSizeKeptSeen ==
    /\ Built
    /\ ~IsSome(BuiltPayload.size_override)
    /\ ~Resolved(BuiltPayload.archive_path)
    /\ Resolved(BuiltPayload.install_path)
    /\ probe.scan = None
    /\ IsSome(probe.existing)
    /\ BuiltEntry.size_bytes = Some(3)

\* ----------------------------------------------------------- update claims

\* C19: a successful update_game(id, payload) replaces the entry in place: the
\* persisted collection has the length and the order of ids it had, the entry
\* at the position of the first id match is the whole replacement value (every
\* field the payload carries, none kept from the old entry), and every other
\* entry is unchanged.
UpdateReplacesInPlace ==
    \A p \in Procs :
        Saved(p, "update_game") =>
            /\ Persisted.ok
            /\ LET before == loaded[p].value
                   after == Persisted.value
                   at == FindFirst(before, cmd[p].id)
                   payload == Unwrap(cmd[p].payload)
               IN /\ at > 0
                  /\ Len(after) = Len(before)
                  /\ \A i \in 1..Len(before) : after[i].id = before[i].id
                  /\ \A i \in 1..Len(before) : i # at => after[i] = before[i]
                  /\ after[at] = result[p].value
                  /\ \A field \in OptionalFields :
                        after[at][field] = IF Resolved(payload[field])
                                           THEN Some(Trim(Unwrap(payload[field])))
                                           ELSE None
                  /\ after[at].status = payload.status
                  /\ SeqToSet(after[at].tags) = TagSet(payload.tags)

UpdateReplacesInPlaceSeen ==
    /\ Saved("p1", "update_game")
    /\ Persisted.ok
    /\ Len(Persisted.value) = 2
    /\ FindFirst(loaded["p1"].value, cmd["p1"].id) = 1
    /\ loaded["p1"].value[1].version = Some(<<"A">>)
    /\ Persisted.value[1].version = None
    /\ Persisted.value[1].updated_at > Persisted.value[2].updated_at

\* --------------------------------------------------------- progress claims

\* The progress notifications of job id, in order.
Progress(id) == SelectSeq(events[id], LAMBDA e : e.kind = "download-progress")

\* No other job writes to the destination of job id.
SoleWriter(id) == \A o \in JobIds \ {id} : jobs[o].target # jobs[id].target

\* The processed counts of a job rise strictly, the total is the same in all of
\* them and is the size the server declared or absent. While the job streams,
\* the last count is the number of bytes it has written, which is the length
\* of its file; when it completes, the last count is the final length.
ProgressIsCumulative ==
    \A id \in JobIds :
        LET progress == Progress(id)
            n == Len(progress)
        IN /\ \A i \in 1..(n - 1) : progress[i].processed < progress[i + 1].processed
           /\ \A i \in 1..n : progress[i].processed > 0
           /\ \A i \in 1..n : progress[i].total = progress[1].total
           /\ \A i \in 1..n : progress[i].total \in {None, Some(jobs[id].body)}
           /\ jobs[id].pc = "streaming" =>
                 /\ jobs[id].downloaded = IF n = 0 THEN 0 ELSE progress[n].processed
                 /\ SoleWriter(id) => files[jobs[id].target] = jobs[id].downloaded
           /\ (jobs[id].pc = "done" /\ jobs[id].ret.ok) =>
                 /\ (IF n = 0 THEN 0 ELSE progress[n].processed) = jobs[id].body
                 /\ SoleWriter(id) => files[jobs[id].target] = jobs[id].body

\* One notification per chunk written: a step in which job id writes a chunk
\* appends one progress notification, whose count is the old count plus the
\* length of the chunk.
OnePerChunk ==
    \A id \in JobIds :
        (jobs[id].pc = "streaming" /\ jobs'[id].pc = "streaming" /\ jobs'[id] # jobs[id]) =>
            /\ Len(events'[id]) = Len(events[id]) + 1
            /\ LET last == events'[id][Len(events'[id])]
               IN /\ last.kind = "download-progress"
                  /\ last.processed = jobs[id].downloaded + (jobs[id].remaining - jobs'[id].remaining)
                  /\ jobs'[id].remaining < jobs[id].remaining
                  /\ last.processed <= files'[jobs[id].target]

\* C20: within one job the processed counts of successive progress
\* notifications are strictly increasing and cumulative: each is the number of
\* body bytes written to the destination so far, one notification is emitted
\* per chunk written, on completion the last one is the final file length, and
\* the total is the same in every notification (the declared size, or absent).
ProgressCumulative == []ProgressIsCumulative /\ [][OnePerChunk]_vars

ThreeChunksCompletedSeen ==
    \E id \in JobIds :
        /\ jobs[id].pc = "done"
        /\ jobs[id].ret.ok
        /\ Len(Progress(id)) = 3
        /\ Progress(id)[1].processed = DOWNLOAD_BUFFER \div 2
        /\ Progress(id)[2].processed = DOWNLOAD_BUFFER
        /\ Progress(id)[3].processed = DOWNLOAD_BUFFER + 1
        /\ Progress(id)[3].total = Some(DOWNLOAD_BUFFER + 1)
        /\ files[jobs[id].target] = DOWNLOAD_BUFFER + 1

====
